---- MODULE Spec2Model ----
(***************************************************************************)
(* Model of the spell-check pipeline of the web content crawler:           *)
(*   backend/helpers.py    find_dumb_text_batches, get_common_text_elements *)
(*   backend/llm.py        spelling_check                                  *)
(*   backend/webcrawler.py WebCrawler                                      *)
(*   main.py, app.py       the two Streamlit dashboards                    *)
(*                                                                         *)
(* Six specifications share the variables:                                 *)
(*   SpecPack  find_dumb_text_batches as a loop over arbitrary inputs      *)
(*   SpecRun   one highlight_incorrect_text call on arbitrary pages        *)
(*   Spec      the main.py dashboard driving one WebCrawler                *)
(*   SpecApp   the app.py dashboard                                        *)
(*   SpecDiff  make_both_bold on arbitrary pairs of texts                  *)
(*   SpecExtract  the extract_* methods on arbitrary documents             *)
(***************************************************************************)
EXTENDS Integers, Sequences, FiniteSets, TLC

(***************************************************************************)
(* Bounds of the model.                                                    *)
(***************************************************************************)
MaxElems == 3      \* longest element list handed to the packer in SpecPack
MaxNodes == 2      \* most DOM nodes matched by the base selectors of a page
MaxResults == 2    \* most entries in one answer of the correction service
MaxChars == 4      \* longest free-form string given to the diff renderer
MaxWords == 3      \* most words of a single-spaced string given to it
MaxDoc == 2        \* most links, images and tables of a document in SpecExtract

(***************************************************************************)
(* Texts and the tokenizer.  A text is named by a string; tiktoken is an   *)
(* external collaborator, so its count is modelled by a cost per text.     *)
(* json.dumps(batch, indent=2) is kept structurally (a sequence of         *)
(* {idx, text} records); its token count is the brackets plus, per item,   *)
(* the punctuation and keys of the item and the tokens of its text.        *)
(***************************************************************************)
Texts == {"ok", "big", "huge"}

TextTokens(t) ==
    CASE t = "ok"   -> 4
      [] t = "big"  -> 60000
      [] t = "huge" -> 100000
      [] OTHER      -> 1

RECURSIVE SumTokens(_)
SumTokens(batch) ==
    IF batch = << >> THEN 0
    ELSE 12 + TextTokens(Head(batch).text) + SumTokens(Tail(batch))

\* num_tokens_from_model(json.dumps(batch, ensure_ascii=False, indent=2))
NumTokens(batch) == 1 + SumTokens(batch)

\* {"idx": elem.idx, "text": elem.text}
Item(elem) == [idx |-> elem.idx, text |-> elem.text]

(***************************************************************************)
(* find_dumb_text_batches.  acc is the loop state                          *)
(* [batches, current_batch, dropped]; current_json and current_tokens are  *)
(* always the serialization and the count of current_batch.  dropped is    *)
(* the list of elements reported by the "[warning] Bỏ qua phần tử" print.  *)
(***************************************************************************)
PackInit == [batches |-> << >>, current_batch |-> << >>, dropped |-> << >>]

\* PackStep with the element lost when a batch is closed (the new batch
\* starts empty instead of holding the element).
PackStepLosesElem(acc, elem, MAX_TOKENS) ==
    LET temp_batch == Append(acc.current_batch, Item(elem)) IN
    IF NumTokens(temp_batch) <= MAX_TOKENS
    THEN [acc EXCEPT !.current_batch = temp_batch]
    ELSE IF acc.current_batch = << >>
         THEN [acc EXCEPT !.dropped = Append(@, elem.idx)]
         ELSE [acc EXCEPT !.batches = Append(@, acc.current_batch),
                          !.current_batch = << >>]

\* PackStep with `temp_tokens < MAX_TOKENS` as the test.
PackStepStrict(acc, elem, MAX_TOKENS) ==
    LET temp_batch == Append(acc.current_batch, Item(elem)) IN
    IF NumTokens(temp_batch) < MAX_TOKENS
    THEN [acc EXCEPT !.current_batch = temp_batch]
    ELSE IF acc.current_batch = << >>
         THEN [acc EXCEPT !.dropped = Append(@, elem.idx)]
         ELSE [acc EXCEPT !.batches = Append(@, acc.current_batch),
                          !.current_batch = << Item(elem) >>]

\* One iteration of `for elem in elements`.
PackStep(acc, elem, MAX_TOKENS) ==
    LET temp_batch == Append(acc.current_batch, Item(elem)) IN
    IF NumTokens(temp_batch) <= MAX_TOKENS
    THEN [acc EXCEPT !.current_batch = temp_batch]
    ELSE IF acc.current_batch = << >>
         THEN [acc EXCEPT !.dropped = Append(@, elem.idx)]
         ELSE [acc EXCEPT !.batches = Append(@, acc.current_batch),
                          !.current_batch = << Item(elem) >>]

\* PackClose with the last batch put in front of the earlier ones.
PackClosePrepends(acc) ==
    IF acc.current_batch # << >>
    THEN [acc EXCEPT !.batches = << acc.current_batch >> \o @]
    ELSE acc

\* PackClose without the `if current_batch` test.
PackCloseAlways(acc) == [acc EXCEPT !.batches = Append(@, acc.current_batch)]

\* The code after the loop: close the last batch if any.
PackClose(acc) ==
    IF acc.current_batch # << >>
    THEN [acc EXCEPT !.batches = Append(@, acc.current_batch)]
    ELSE acc

RECURSIVE PackLoop(_, _, _)
PackLoop(acc, elems, MAX_TOKENS) ==
    IF elems = << >> THEN acc
    ELSE PackLoop(PackStep(acc, Head(elems), MAX_TOKENS), Tail(elems), MAX_TOKENS)

\* The whole function: its returned batches and its drop reports.
FindDumbTextBatches(elems, MAX_TOKENS) ==
    IF elems = << >> THEN PackInit
    ELSE PackClose(PackLoop(PackInit, elems, MAX_TOKENS))


(***************************************************************************)
(* get_common_text_elements.  A page is the list of DOM nodes its base     *)
(* selectors match and the list its special selectors match, each in       *)
(* selector order then document order.  A node has the stripped inner text *)
(* the browser returns for it, or is detached (inner_text() raises); it is *)
(* displayed or not (display: none, for which innerText is the element's   *)
(* textContent); and it may be lost afterwards, removed from the document  *)
(* before the highlight is applied.  acc is the loop state [elements, cnt].*)
(***************************************************************************)
Node(t, d, shown, l) == [text |-> t, detached |-> d, displayed |-> shown, lost |-> l]

\* the node a locator page.locator(sel).nth(n) resolves to
NodeAt(page, loc) ==
    IF loc.sel = "base" THEN page.base[loc.nth + 1] ELSE page.special[loc.nth + 1]

Locator(sel, n) == [sel |-> sel, nth |-> n]

CollectInit == [elements |-> << >>, cnt |-> 0]

\* CollectNode with a node of blank text consuming an index.
CollectNodeCountsBlank(acc, node, loc) ==
    IF node.detached THEN acc
    ELSE IF node.text # ""
         THEN [elements |-> Append(acc.elements,
                               [idx |-> acc.cnt, text |-> node.text, locator |-> loc]),
               cnt |-> acc.cnt + 1]
         ELSE [acc EXCEPT !.cnt = @ + 1]

\* CollectNode with a detached node consuming an index.
CollectNodeCountsDetached(acc, node, loc) ==
    IF node.detached THEN [acc EXCEPT !.cnt = @ + 1]
    ELSE IF node.text # ""
         THEN [elements |-> Append(acc.elements,
                               [idx |-> acc.cnt, text |-> node.text, locator |-> loc]),
               cnt |-> acc.cnt + 1]
         ELSE acc

\* the body of `for i in range(count)`: try / inner_text / strip / append
CollectNode(acc, node, loc) ==
    IF node.detached THEN acc
    ELSE IF node.text # ""
         THEN [elements |-> Append(acc.elements,
                               [idx |-> acc.cnt, text |-> node.text, locator |-> loc]),
               cnt |-> acc.cnt + 1]
         ELSE acc

RECURSIVE CollectNodes(_, _, _, _)
CollectNodes(acc, nodes, sel, i) ==
    IF i > Len(nodes) THEN acc
    ELSE CollectNodes(CollectNode(acc, nodes[i], Locator(sel, i - 1)), nodes, sel, i + 1)

\* GetCommonTextElements with the special selectors counting from 0 again.
GetCommonTextElementsOwnCounters(page) ==
    CollectNodes([elements |-> CollectNodes(CollectInit, page.base, "base", 1).elements,
                  cnt |-> 0],
                 page.special, "special", 1).elements

GetCommonTextElements(page) ==
    CollectNodes(CollectNodes(CollectInit, page.base, "base", 1),
                 page.special, "special", 1).elements

(***************************************************************************)
(* spelling_check.  The correction service is external: a call either      *)
(* fails (network error, json.loads or the Result constructor raising) or  *)
(* yields a list of Result(content, idx) with whatever idx the model wrote.*)
(***************************************************************************)
Result(content, idx) == [content |-> content, idx |-> idx]

\* the two ways a call ends: an exception, or the parsed list
ServiceFails == [fails |-> TRUE, results |-> << >>]

ServiceReturns(results) == [fails |-> FALSE, results |-> results]

(***************************************************************************)
(* The browser resources of a WebCrawler.  self.playwright, self.browser   *)
(* and self.page are None ("none") or refer to a resource that is in use   *)
(* ("started", "open") or released ("stopped", "closed").  orphaned tells  *)
(* that a browser the crawler launched is still open and no longer         *)
(* referred to by the crawler.                                             *)
(***************************************************************************)
\* async_playwright().start(), chromium.launch(), browser.new_page(): the
\* three references are overwritten
Launch(c) ==
    [c EXCEPT !.playwright = "started", !.browser = "open", !.page = "open",
              !.orphaned = @ \/ c.browser = "open"]

\* the closes that can fail in a cleanup: none, page.close(), browser.close()
CloseFailures == {"none", "page", "browser"}

\* cleanup: one try block around the three releases, `except Exception: pass`
Cleanup(c, fails) ==
    IF c.page # "none" /\ fails = "page" THEN c
    ELSE LET c1 == [c EXCEPT !.page = IF @ = "none" THEN "none" ELSE "closed"] IN
         IF c1.browser # "none" /\ fails = "browser" THEN c1
         ELSE [c1 EXCEPT !.browser = IF @ = "none" THEN "none" ELSE "closed",
                         !.playwright = IF @ = "none" THEN "none" ELSE "stopped"]

(***************************************************************************)
(* WebCrawler.highlight_incorrect_text.                                    *)
(***************************************************************************)
MAX_TOKENS == 100000

\* an attribute of the crawler: not assigned yet, or assigned a list
Unset == [set |-> FALSE, val |-> << >>]

SetTo(v) == [set |-> TRUE, val |-> v]

\* Python's list[idx]: valid for -len <= idx < len, negative counts from the end
PyInRange(list, idx) == idx >= 0 - Len(list) /\ idx < Len(list)

PyIndex(list, idx) == IF idx >= 0 THEN list[idx + 1] ELSE list[Len(list) + idx + 1]

\* highlight_locator: locator.evaluate(...) raises when the element cannot be
\* resolved any more; nothing in the function catches it
HighlightLocator(page, loc) == ~NodeAt(page, loc).lost

JoinInit == [highlighted |-> << >>, raw_text |-> << >>, edited_text |-> << >>,
             outcome |-> "ok"]

\* `for res in self._correction_text`: acc holds the locators highlighted so
\* far and the two column lists; an IndexError of the subscript or an error
\* of highlight_locator ends the loop and the call.
RECURSIVE JoinLoop(_, _, _, _)
JoinLoop(acc, results, elements, page) ==
    IF results = << >> THEN acc
    ELSE LET res == Head(results) IN
         IF ~PyInRange(elements, res.idx)
         THEN [acc EXCEPT !.outcome = "IndexError"]
         ELSE LET elem == PyIndex(elements, res.idx) IN
              IF ~HighlightLocator(page, elem.locator)
              THEN [acc EXCEPT !.outcome = "HighlightError"]
              ELSE JoinLoop([acc EXCEPT !.highlighted = Append(@, elem.locator),
                                        !.raw_text = Append(@, elem.text),
                                        !.edited_text = Append(@, res.content)],
                            Tail(results), elements, page)

\* HighlightIncorrectText whose join removes from self._locators_element
\* the elements it has built a record for.
HighlightIncorrectTextPopsElements(c, pg, svc) ==
    LET elements == GetCommonTextElements(pg)
        packed == FindDumbTextBatches(elements, MAX_TOKENS)
        c1 == [Launch(c) EXCEPT !.locators_element = SetTo(elements),
                        !.text_batches = SetTo(packed.batches)]
        none == [JoinInit EXCEPT !.outcome = "IndexError"]
        join == JoinLoop(JoinInit, svc.results, elements, pg)
    IN  IF packed.batches = << >>
        THEN [crawler |-> c1, sent |-> << >>, dropped |-> packed.dropped,
              join |-> none]
        ELSE IF svc.fails
        THEN [crawler |-> c1, sent |-> << packed.batches[1] >>,
              dropped |-> packed.dropped,
              join |-> [JoinInit EXCEPT !.outcome = "ServiceError"]]
        ELSE [crawler |-> [c1 EXCEPT !.correction_text = SetTo(svc.results),
                                     !.locators_element =
                                         SetTo(SubSeq(elements, Len(join.raw_text) + 1,
                                                      Len(elements)))],
              sent |-> << packed.batches[1] >>, dropped |-> packed.dropped,
              join |-> join]

\* The call on a crawler whose fields are `c`, with the page the browser
\* loads and the answer of the service.  The result gives the crawler's
\* fields after the call, the batches passed to spelling_check (sent), the
\* locators highlighted, the two columns built and how the call ended
\* ("ok": the DataFrame of the two columns is returned).
HighlightIncorrectText(c, pg, svc) ==
    LET elements == GetCommonTextElements(pg)
        packed == FindDumbTextBatches(elements, MAX_TOKENS)
        c1 == [Launch(c) EXCEPT !.locators_element = SetTo(elements),
                        !.text_batches = SetTo(packed.batches)]
        none == [JoinInit EXCEPT !.outcome = "IndexError"]
    IN  IF packed.batches = << >>
        THEN [crawler |-> c1, sent |-> << >>, dropped |-> packed.dropped,
              join |-> none]
        ELSE IF svc.fails
        THEN [crawler |-> c1, sent |-> << packed.batches[1] >>,
              dropped |-> packed.dropped,
              join |-> [JoinInit EXCEPT !.outcome = "ServiceError"]]
        ELSE [crawler |-> [c1 EXCEPT !.correction_text = SetTo(svc.results)],
              sent |-> << packed.batches[1] >>, dropped |-> packed.dropped,
              join |-> JoinLoop(JoinInit, svc.results, elements, pg)]

\* WebCrawler.__init__: the three list fields are only annotated, not set
NewCrawler == [url |-> "none", soup |-> "none",
               playwright |-> "none", browser |-> "none", page |-> "none",
               orphaned |-> FALSE,
               locators_element |-> Unset, text_batches |-> Unset,
               correction_text |-> Unset]

\* cleanup tells whether a cleanup() call has returned since the run
NoRun == [sent |-> << >>, dropped |-> << >>, highlighted |-> << >>,
          raw_text |-> << >>, edited_text |-> << >>, outcome |-> "none",
          cleanup |-> "none"]

RunOf(r) == [sent |-> r.sent, dropped |-> r.dropped,
             highlighted |-> r.join.highlighted,
             raw_text |-> r.join.raw_text, edited_text |-> r.join.edited_text,
             outcome |-> r.join.outcome, cleanup |-> "none"]

(***************************************************************************)
(* The other WebCrawler operations the dashboards call.  The parsed        *)
(* document (soup) is named by the URL it was fetched from.                *)
(***************************************************************************)
\* crawl_with_playwright: no try/except; a failed goto raises and leaves
\* the browser as launched, a successful crawl ends with cleanup()
CrawlWithPlaywright(c, u, ok) ==
    IF ok THEN [crawler |-> Cleanup([Launch(c) EXCEPT !.url = u, !.soup = u], "none"),
                ret |-> "true"]
    ELSE [crawler |-> Launch(c), ret |-> "raise"]

\* crawl_with_requests: every exception is caught, reported and gives False
CrawlWithRequests(c, u, ok) ==
    IF ok THEN [crawler |-> [c EXCEPT !.url = u, !.soup = u], ret |-> "true"]
    ELSE [crawler |-> c, ret |-> "false"]

\* An extracted artifact: the URL of the document it comes from and, for
\* the spell-check table, its rows << wrong text, corrected text >>.
Artifact(u, rows) == [of |-> u, rows |-> rows]

\* extract_page_content / extract_links: {} or [] without a document
ExtractFromSoup(c) == Artifact(c.soup, << >>)

(***************************************************************************)
(* The parsed document in detail, for the extract_* methods.  A document   *)
(* is the list, in document order, of its elements that an extraction      *)
(* returns: links (a with href and text), images (img with src) and        *)
(* tables.  Each is identified by its position in the parsed document (id) *)
(* and lies in the page navigation or chrome (within = "nav": inside       *)
(* script, style, nav, footer, header, aside or noscript), inside a form   *)
(* or button ("form"), or elsewhere in the body ("body").  has_main tells  *)
(* whether one of the main-content selectors matches.                      *)
(***************************************************************************)
DocElem(id, tag, within) == [id |-> id, tag |-> tag, within |-> within]

Soup(has_main, elems) == [has_main |-> has_main, elems |-> elems]

\* element.decompose() for every element inside one of the regions
Decompose(soup, regions) ==
    LET Kept(e) == e.within \notin regions
    IN  [soup EXCEPT !.elems = SelectSeq(@, Kept)]

\* _get_main_content: the text of the first main selector that matches;
\* without one, the body text after nav/header/footer/aside/form/button
\* have been removed from self.soup
GetMainContent(soup) ==
    IF soup.has_main THEN soup ELSE Decompose(soup, {"nav", "form"})

\* extract_page_content: self.soup after the call (script, style, nav,
\* footer, header, aside and noscript removed, then _get_main_content twice)
ExtractPageContent(soup) ==
    GetMainContent(GetMainContent(Decompose(soup, {"nav"})))

\* the tag each extraction looks for with self.soup.find_all
ExtractTags == [links |-> "a", images |-> "img", tables |-> "table"]

\* extract_links / extract_images / extract_tables: one entry per element
\* of the tag, in document order
ExtractByTag(soup, tag) ==
    LET HasTag(e) == e.tag = tag
        found == SelectSeq(soup.elems, HasTag)
    IN  [k \in 1..Len(found) |-> found[k].id]

NoExtracts == [kind \in DOMAIN ExtractTags |-> Unset]

\* pd.DataFrame({'Wrong Text': raw_text, 'Correct Text Suggest': edited_text})
DataFrame(raw_text, edited_text) ==
    [k \in 1..Len(raw_text) |-> << raw_text[k], edited_text[k] >>]

(***************************************************************************)
(* Strings.  A Python str is the sequence of its characters; a text named  *)
(* by a string elsewhere in the model has the characters Chars gives.      *)
(***************************************************************************)
Chars(t) ==
    CASE t = "ok"    -> << "o", "k" >>
      [] t = "big"   -> << "b", "i", "g" >>
      [] t = "huge"  -> << "h", "u", "g", "e" >>
      [] t = "fixed" -> << "f", "i", "x", "e", "d" >>
      [] OTHER       -> << >>

IsSpace(c) == c \in {" ", "\n"}

\* str.split() without argument: the maximal runs of non-whitespace
RECURSIVE SplitFrom(_, _, _)
SplitFrom(str, word, words) ==
    IF str = << >>
    THEN IF word = << >> THEN words ELSE Append(words, word)
    ELSE IF IsSpace(Head(str))
         THEN SplitFrom(Tail(str), << >>,
                        IF word = << >> THEN words ELSE Append(words, word))
         ELSE SplitFrom(Tail(str), Append(word, Head(str)), words)

Split(str) == SplitFrom(str, << >>, << >>)

\* ' '.join(words)
RECURSIVE Join(_)
Join(words) ==
    IF words = << >> THEN << >>
    ELSE IF Len(words) = 1 THEN words[1]
    ELSE words[1] \o << " " >> \o Join(Tail(words))

(***************************************************************************)
(* difflib.SequenceMatcher(None, a, b) on word lists shorter than 200      *)
(* words (below that length the autojunk heuristic is off and, with no     *)
(* junk, the extension loops of find_longest_match do nothing).  Indices   *)
(* are Python's: 0-based, ranges half-open.                                *)
(***************************************************************************)
\* the blocks a[i:i+k] == b[j:j+k], k > 0, inside a[alo:ahi] and b[blo:bhi]
CommonBlocks(a, b, alo, ahi, blo, bhi) ==
    { m \in [i : alo..(ahi - 1), j : blo..(bhi - 1), k : 1..(ahi - alo)] :
        /\ m.i + m.k <= ahi
        /\ m.j + m.k <= bhi
        /\ \A d \in 0..(m.k - 1) : a[m.i + d + 1] = b[m.j + d + 1] }

\* find_longest_match: a longest block; of those the one starting earliest
\* in a; of those the one starting earliest in b; (alo, blo, 0) if none
FindLongestMatch(a, b, alo, ahi, blo, bhi) ==
    LET ms == CommonBlocks(a, b, alo, ahi, blo, bhi) IN
    IF ms = {} THEN [i |-> alo, j |-> blo, k |-> 0]
    ELSE CHOOSE m \in ms :
            \A n \in ms :
                \/ n.k < m.k
                \/ n.k = m.k /\ n.i > m.i
                \/ n.k = m.k /\ n.i = m.i /\ n.j >= m.j

\* get_matching_blocks, before the sentinel: the longest match, then the
\* same to its left and to its right, in increasing order
RECURSIVE MatchingBlocks(_, _, _, _, _, _)
MatchingBlocks(a, b, alo, ahi, blo, bhi) ==
    LET m == FindLongestMatch(a, b, alo, ahi, blo, bhi) IN
    IF m.k = 0 THEN << >>
    ELSE (IF alo < m.i /\ blo < m.j
          THEN MatchingBlocks(a, b, alo, m.i, blo, m.j) ELSE << >>)
         \o << m >>
         \o (IF m.i + m.k < ahi /\ m.j + m.k < bhi
             THEN MatchingBlocks(a, b, m.i + m.k, ahi, m.j + m.k, bhi) ELSE << >>)

\* get_matching_blocks: adjacent blocks are merged
RECURSIVE CollapseBlocks(_, _)
CollapseBlocks(cur, blocks) ==
    IF blocks = << >> THEN (IF cur.k > 0 THEN << cur >> ELSE << >>)
    ELSE LET m == Head(blocks) IN
         IF cur.i + cur.k = m.i /\ cur.j + cur.k = m.j
         THEN CollapseBlocks([cur EXCEPT !.k = @ + m.k], Tail(blocks))
         ELSE (IF cur.k > 0 THEN << cur >> ELSE << >>)
              \o CollapseBlocks(m, Tail(blocks))

GetMatchingBlocks(a, b) ==
    Append(CollapseBlocks([i |-> 0, j |-> 0, k |-> 0],
                          MatchingBlocks(a, b, 0, Len(a), 0, Len(b))),
           [i |-> Len(a), j |-> Len(b), k |-> 0])

Opcode(tag, i1, i2, j1, j2) == [tag |-> tag, i1 |-> i1, i2 |-> i2, j1 |-> j1, j2 |-> j2]

\* get_opcodes: i, j are the ends of the previous block
RECURSIVE OpcodesFrom(_, _, _)
OpcodesFrom(blocks, i, j) ==
    IF blocks = << >> THEN << >>
    ELSE LET m == Head(blocks)
             tag == IF i < m.i /\ j < m.j THEN "replace"
                    ELSE IF i < m.i THEN "delete"
                    ELSE IF j < m.j THEN "insert"
                    ELSE ""
         IN  (IF tag # "" THEN << Opcode(tag, i, m.i, j, m.j) >> ELSE << >>)
             \o (IF m.k > 0
                 THEN << Opcode("equal", m.i, m.i + m.k, m.j, m.j + m.k) >>
                 ELSE << >>)
             \o OpcodesFrom(Tail(blocks), m.i + m.k, m.j + m.k)

GetOpcodes(a, b) == OpcodesFrom(GetMatchingBlocks(a, b), 0, 0)

(***************************************************************************)
(* make_both_bold and highlight_both_columns_differences.                  *)
(* With no row, df.apply(axis=1) returns the empty frame itself and the    *)
(* zip/unpack of its two column labels raises ValueError.                  *)
(***************************************************************************)
Plain(w) == w

Bold(w) == << "*", "*" >> \o w \o << "*", "*" >>

\* MarkedWrong with only replaced words marked, deleted ones not.
MarkedWrongReplacedOnly(ops) ==
    { i \in 0..ops[Len(ops)].i2 :
        \E n \in 1..Len(ops) : ops[n].tag = "replace" /\ ops[n].i1 <= i /\ i < ops[n].i2 }

\* the positions of one side (0-based) that a non-equal opcode covers
MarkedWrong(ops) ==
    { i \in 0..ops[Len(ops)].i2 :
        \E n \in 1..Len(ops) : ops[n].tag # "equal" /\ ops[n].i1 <= i /\ i < ops[n].i2 }

\* MarkedCorrect with only replacing words marked, inserted ones not.
MarkedCorrectReplacedOnly(ops) ==
    { j \in 0..ops[Len(ops)].j2 :
        \E n \in 1..Len(ops) : ops[n].tag = "replace" /\ ops[n].j1 <= j /\ j < ops[n].j2 }

MarkedCorrect(ops) ==
    { j \in 0..ops[Len(ops)].j2 :
        \E n \in 1..Len(ops) : ops[n].tag # "equal" /\ ops[n].j1 <= j /\ j < ops[n].j2 }

\* Highlighted with the marks one word to the left.
HighlightedShifted(words, marked) ==
    [n \in 1..Len(words) |-> IF n \in marked THEN Bold(words[n]) ELSE Plain(words[n])]

\* wrong_highlighted / correct_highlighted after the loop over the opcodes
Highlighted(words, marked) ==
    [n \in 1..Len(words) |-> IF (n - 1) \in marked THEN Bold(words[n]) ELSE Plain(words[n])]

MakeBothBold(wrong_text, correct_text) ==
    LET words_wrong == Split(wrong_text)
        words_correct == Split(correct_text)
        ops == GetOpcodes(words_wrong, words_correct)
    IN  IF ops = << >> THEN << Join(words_wrong), Join(words_correct) >>
        ELSE << Join(Highlighted(words_wrong, MarkedWrong(ops))),
                Join(Highlighted(words_correct, MarkedCorrect(ops))) >>

\* the cells of a frame of texts, as strings
CellsOf(df) == [k \in 1..Len(df) |-> << Chars(df[k][1]), Chars(df[k][2]) >>]

\* table.to_csv(..., index=False): the header and one line per row, each
\* with the two cells of the row and no index cell
ToCsv(cells) == [header |-> << "Wrong Text", "Correct Text Suggest" >>, rows |-> cells]

\* HighlightBothColumnsDifferences starting from texts that already carry
\* the marks of an earlier rendering.
HighlightBothColumnsDifferencesTwice(df) ==
    IF df = << >> THEN [raises |-> TRUE, table |-> << >>]
    ELSE [raises |-> FALSE,
          table |-> [k \in 1..Len(df) |->
                        LET once == MakeBothBold(Chars(df[k][1]), Chars(df[k][2]))
                        IN  MakeBothBold(once[1], once[2])]]

\* result_df is a copy of df: the frame passed in keeps its cells
HighlightBothColumnsDifferences(df) ==
    IF df = << >> THEN [raises |-> TRUE, table |-> << >>]
    ELSE [raises |-> FALSE,
          table |-> [k \in 1..Len(df) |->
                        MakeBothBold(Chars(df[k][1]), Chars(df[k][2]))]]

(***************************************************************************)
(* Dictionaries (st.session_state entries, the local `data`).              *)
(***************************************************************************)
EmptyDict == [k \in {} |-> Artifact("none", << >>)]

Put(d, key, v) == [k \in DOMAIN d \cup {key} |-> IF k = key THEN v ELSE d[k]]

(***************************************************************************)
(* main.py, the display section (lines 106-229): one pass of               *)
(* `for option in content_options`.  st is [crawler, run, cache, shown,    *)
(* csv, uncaught]: cache is st.session_state.extracted_content, shown what *)
(* the pass has rendered, csv the data of the download button, uncaught    *)
(* the exception that ended the script.                                    *)
(***************************************************************************)
MainOption(st, option, pg, svc) ==
    IF option = "Spell Check"
    THEN LET r == HighlightIncorrectText(Cleanup(st.crawler, "none"), pg, svc)
             cached == "Spell Check" \in DOMAIN st.cache
             st1 == IF cached THEN st
                    ELSE IF r.join.outcome = "ok"
                    THEN [st EXCEPT !.crawler = r.crawler, !.run = RunOf(r),
                             !.cache = Put(@, "Spell Check",
                                  Artifact(r.crawler.url,
                                      DataFrame(r.join.raw_text, r.join.edited_text)))]
                    ELSE [st EXCEPT !.crawler = r.crawler, !.run = RunOf(r),
                                    !.uncaught = r.join.outcome]
         IN  IF st1.uncaught # "none" THEN st1
             ELSE LET table == st1.cache["Spell Check"]
                      diff == HighlightBothColumnsDifferences(table.rows)
                  IN  IF diff.raises THEN [st1 EXCEPT !.uncaught = "ValueError"]
                      ELSE [st1 EXCEPT !.shown = Put(@, "Spell Check",
                                            Artifact(table.of, diff.table)),
                                       !.csv = SetTo(ToCsv(diff.table))]
    ELSE LET cache1 == IF option \in DOMAIN st.cache THEN st.cache
                       ELSE Put(st.cache, option, ExtractFromSoup(st.crawler))
         IN  [st EXCEPT !.cache = cache1, !.shown = Put(@, option, cache1[option])]

RECURSIVE MainOptions(_, _, _, _)
MainOptions(st, options, pg, svc) ==
    IF options = << >> \/ st.uncaught # "none" THEN st
    ELSE MainOptions(MainOption(st, Head(options), pg, svc), Tail(options), pg, svc)

(***************************************************************************)
(* State.                                                                  *)
(***************************************************************************)
VARIABLES
    session,       \* st.session_state of the dashboard
    ui,            \* what the current script run has put on the page
    pc,            \* position of the dashboard script
    crawler,       \* the WebCrawler's fields
    run,           \* the last highlight_incorrect_text call: batches sent,
                   \* drop reports, locators highlighted, columns, outcome
    page,          \* SpecRun: the page the browser loads
    reply,         \* SpecRun: what the correction service answers
    d_wrong,       \* SpecDiff: the argument wrong_text
    d_correct,     \* SpecDiff: the argument correct_text
    d_out,         \* SpecDiff: the pair make_both_bold returned, if called
    doc_crawled,   \* SpecExtract: the document as it was parsed by the crawl
    doc_soup,      \* SpecExtract: self.soup
    doc_out,       \* SpecExtract: what each extract_* method returned, if called
    pk_elements,   \* SpecPack: the argument `elements`
    pk_max,        \* SpecPack: the argument MAX_TOKENS
    pk_i,          \* SpecPack: number of elements the loop has consumed
    pk_acc,        \* SpecPack: batches, current_batch, drop reports
    pk_pc          \* SpecPack: "idle", "loop" or "returned"

pkvars == << pk_elements, pk_max, pk_i, pk_acc, pk_pc >>

runvars == << crawler, run, page, reply >>

dashvars == << session, ui, pc >>

diffvars == << d_wrong, d_correct, d_out >>

extvars == << doc_crawled, doc_soup, doc_out >>

vars == << pkvars, runvars, dashvars, diffvars, extvars >>

(***************************************************************************)
(* SpecPack: find_dumb_text_batches on every element list up to MaxElems   *)
(* and a choice of budgets.  Elements carry the indices the collector      *)
(* gives them: position k (1-based) has idx k-1.                           *)
(***************************************************************************)
SeqsUpTo(S, n) == UNION { [1..k -> S] : k \in 0..n }

MkElements(ts) ==
    [k \in 1..Len(ts) |-> [idx |-> k - 1, text |-> ts[k], locator |-> k]]

\* budgets: nothing fits; one "ok" item fits; two fit exactly; two fit with
\* room to spare; the budget of highlight_incorrect_text
BudgetChoices == {0, 20, 33, 40, 100000}

ExtractIdle ==
    /\ doc_crawled = Soup(FALSE, << >>)
    /\ doc_soup = Soup(FALSE, << >>)
    /\ doc_out = NoExtracts

DiffIdle ==
    /\ d_wrong = << >>
    /\ d_correct = << >>
    /\ d_out = [done |-> FALSE, wrong |-> << >>, correct |-> << >>]

PackIdle ==
    /\ pk_elements = << >>
    /\ pk_max = 0
    /\ pk_i = 0
    /\ pk_acc = PackInit
    /\ pk_pc = "idle"

NoCsv == [set |-> FALSE, val |-> ToCsv(<< >>)]

\* clicked is the URL of the crawl the script run was started for, if any
NoUi == [uncaught |-> "none", errors |-> {}, shown |-> EmptyDict, data |-> EmptyDict,
         csv |-> NoCsv, clicked |-> "none"]

DashIdle ==
    /\ session = [crawl_success |-> "unset", extracted_content |-> Unset]
    /\ ui = NoUi
    /\ pc = "idle"

RunIdle ==
    /\ DashIdle
    /\ crawler = NewCrawler
    /\ run = NoRun
    /\ page = [base |-> << >>, special |-> << >>]
    /\ reply = ServiceReturns(<< >>)

InitPack ==
    /\ ExtractIdle
    /\ DiffIdle
    /\ RunIdle
    /\ pk_elements \in { MkElements(ts) : ts \in SeqsUpTo(Texts, MaxElems) }
    /\ pk_max \in BudgetChoices
    /\ pk_i = 0
    /\ pk_acc = PackInit
    /\ pk_pc = "loop"

\* `if not elements: return []`
PackEmptyReturn ==
    /\ pk_pc = "loop"
    /\ pk_elements = << >>
    /\ pk_pc' = "returned"
    /\ UNCHANGED << pk_elements, pk_max, pk_i, pk_acc, runvars, dashvars, diffvars, extvars >>

\* one iteration of the for loop
PackIterate ==
    /\ pk_pc = "loop"
    /\ pk_i < Len(pk_elements)
    /\ pk_acc' = PackStep(pk_acc, pk_elements[pk_i + 1], pk_max)
    /\ pk_i' = pk_i + 1
    /\ UNCHANGED << pk_elements, pk_max, pk_pc, runvars, dashvars, diffvars, extvars >>

\* the code after the loop, and the return
PackReturn ==
    /\ pk_pc = "loop"
    /\ pk_elements # << >>
    /\ pk_i = Len(pk_elements)
    /\ pk_acc' = PackClose(pk_acc)
    /\ pk_pc' = "returned"
    /\ UNCHANGED << pk_elements, pk_max, pk_i, runvars, dashvars, diffvars, extvars >>

NextPack == PackEmptyReturn \/ PackIterate \/ PackReturn

SpecPack == InitPack /\ [][NextPack]_vars

(***************************************************************************)
(* SpecRun: one highlight_incorrect_text call on a crawler that has        *)
(* crawled a URL, for every page up to MaxNodes base nodes and one special *)
(* node, and every answer of the service up to MaxResults entries.         *)
(***************************************************************************)
NodeChoices ==
    { Node(t, FALSE, TRUE, FALSE) : t \in Texts \cup {""} }
        \cup { Node("ok", TRUE, TRUE, FALSE),      \* detached when collected
               Node("ok", FALSE, FALSE, FALSE),    \* display: none
               Node("ok", FALSE, TRUE, TRUE) }     \* lost before the highlight

\* nodes matched by the special selectors: with text, or blank
SpecialChoices == { Node(t, FALSE, TRUE, FALSE) : t \in {"ok", ""} }

Pages == { [base |-> b, special |-> sp] :
             b \in SeqsUpTo(NodeChoices, MaxNodes), sp \in SeqsUpTo(SpecialChoices, 1) }

IdxChoices == (0 - 1)..MaxNodes

Replies ==
    { ServiceReturns(rs) :
        rs \in SeqsUpTo({ Result("fixed", i) : i \in IdxChoices }, MaxResults) }
    \cup {ServiceFails}

CrawledCrawler(u) == CrawlWithPlaywright(NewCrawler, u, TRUE).crawler

InitRun ==
    /\ ExtractIdle
    /\ PackIdle
    /\ DiffIdle
    /\ DashIdle
    /\ crawler = CrawledCrawler("u1")
    /\ run = NoRun
    /\ page \in Pages
    /\ reply \in Replies

CallHighlight ==
    /\ run.outcome = "none"
    /\ LET r == HighlightIncorrectText(crawler, page, reply) IN
         /\ crawler' = r.crawler
         /\ run' = RunOf(r)
    /\ UNCHANGED << page, reply, pkvars, dashvars, diffvars, extvars >>

\* a cleanup() call after the run, with the closes failing or not
CallCleanup ==
    /\ run.outcome # "none"
    /\ run.cleanup = "none"
    /\ \E fails \in CloseFailures : crawler' = Cleanup(crawler, fails)
    /\ run' = [run EXCEPT !.cleanup = "returned"]
    /\ UNCHANGED << page, reply, pkvars, dashvars, diffvars, extvars >>

NextRun == CallHighlight \/ CallCleanup

SpecRun == InitRun /\ [][NextRun]_vars

(***************************************************************************)
(* Spec: the main.py dashboard.  Streamlit runs the script once per        *)
(* interaction: a click on "Check & Crawl Website" runs the button block   *)
(* and then the display section; any other interaction runs the display    *)
(* section alone.  An exception nobody catches ends the script run.        *)
(***************************************************************************)
Urls == {"u1", "u2"}

Methods == {"Requests + BeautifulSoup", "Playwright (JS support)", "Auto (Try both)"}

\* pages and service answers offered to the dashboards
DashPages ==
    { [base |-> b, special |-> << >>] :
        b \in SeqsUpTo({Node("ok", FALSE, TRUE, FALSE)}, MaxNodes) }

DashReplies ==
    { ServiceReturns(rs) :
        rs \in SeqsUpTo({ Result("fixed", i) : i \in {0, MaxNodes} }, 1) }
    \cup {ServiceFails}

\* the selections of the multiselect, in the order the operator made them
OptionLists(opts) ==
    { os \in SeqsUpTo(opts, Cardinality(opts)) :
        \A i, j \in 1..Len(os) : i # j => os[i] # os[j] }

MainContentOptions == {"Page Content", "Spell Check"}

Init ==
    /\ ExtractIdle
    /\ PackIdle
    /\ DiffIdle
    /\ crawler = NewCrawler
    /\ run = NoRun
    /\ page = [base |-> << >>, special |-> << >>]
    /\ reply = ServiceReturns(<< >>)
    /\ DashIdle

\* main.py lines 63-103 with an empty URL box: st.warning
MainClickNoUrl ==
    /\ pc = "idle"
    /\ ui' = [NoUi EXCEPT !.errors = {"Please enter a URL"}]
    /\ run' = NoRun
    /\ pc' = "display"
    /\ UNCHANGED << session, crawler, page, reply, pkvars, diffvars, extvars >>

\* main.py lines 63-103: check_url_availability says the URL is not accessible
MainClickUnavailable ==
    /\ pc = "idle"
    /\ \E u \in Urls :
         /\ session' = [crawl_success |-> "false", extracted_content |-> Unset]
         /\ ui' = [NoUi EXCEPT !.errors = {"URL is not accessible"}]
    /\ run' = NoRun
    /\ pc' = "display"
    /\ UNCHANGED << crawler, page, reply, pkvars, diffvars, extvars >>

\* main.py lines 63-103: the URL is accessible and is crawled by `method`
MainClickCrawl ==
    /\ pc = "idle"
    /\ \E u \in Urls, method \in Methods, req_ok \in BOOLEAN, pw_ok \in BOOLEAN :
         LET req == CrawlWithRequests(crawler, u, req_ok)
             r == IF method = "Requests + BeautifulSoup" THEN req
                  ELSE IF method = "Playwright (JS support)"
                  THEN CrawlWithPlaywright(crawler, u, pw_ok)
                  ELSE IF req.ret = "true" THEN req
                  ELSE CrawlWithPlaywright(req.crawler, u, pw_ok)
             reqmsg == IF method # "Playwright (JS support)" /\ req.ret = "false"
                       THEN {"Requests crawling failed"} ELSE {}
         IN  /\ crawler' = r.crawler
             /\ IF r.ret = "raise"
                THEN /\ session' = [session EXCEPT !.extracted_content = Unset]
                     /\ ui' = [NoUi EXCEPT !.uncaught = "CrawlError", !.errors = reqmsg]
                     /\ pc' = "idle"
                ELSE /\ session' = [crawl_success |-> r.ret, extracted_content |-> Unset]
                     /\ ui' = [NoUi EXCEPT !.errors =
                                 IF r.ret = "true" THEN reqmsg
                                 ELSE reqmsg \cup {"Failed to crawl the website"}]
                     /\ pc' = "display"
    /\ run' = NoRun
    /\ UNCHANGED << page, reply, pkvars, diffvars, extvars >>

\* an interaction other than the button (the multiselect changes): the
\* script runs from the top and skips the button block
MainRerun ==
    /\ pc = "idle"
    /\ ui' = NoUi
    /\ run' = NoRun
    /\ pc' = "display"
    /\ UNCHANGED << session, crawler, page, reply, pkvars, diffvars, extvars >>

\* main.py lines 106-229: nothing is displayed unless the last crawl succeeded
MainDisplayNothing ==
    /\ pc = "display"
    /\ session.crawl_success # "true"
    /\ pc' = "idle"
    /\ UNCHANGED << session, ui, crawler, run, page, reply, pkvars, diffvars, extvars >>

\* main.py lines 106-229: the selected contents are extracted (unless
\* cached) and displayed
MainDisplay ==
    /\ pc = "display"
    /\ session.crawl_success = "true"
    /\ \E options \in OptionLists(MainContentOptions) :
         LET cache0 == IF session.extracted_content.set
                       THEN session.extracted_content.val ELSE EmptyDict
             calls == \E k \in 1..Len(options) : options[k] = "Spell Check"
                         /\ "Spell Check" \notin DOMAIN cache0
         IN \E pg \in (IF calls THEN DashPages ELSE {page}),
               svc \in (IF calls THEN DashReplies ELSE {reply}) :
              LET st == MainOptions([crawler |-> crawler, run |-> run,
                                     cache |-> cache0, shown |-> ui.shown,
                                     csv |-> ui.csv,
                                     uncaught |-> "none"], options, pg, svc)
              IN  /\ crawler' = st.crawler
                  /\ run' = st.run
                  /\ session' = [session EXCEPT !.extracted_content = SetTo(st.cache)]
                  /\ ui' = [ui EXCEPT !.shown = st.shown, !.csv = st.csv,
                                      !.uncaught = st.uncaught]
    /\ pc' = "idle"
    /\ UNCHANGED << page, reply, pkvars, diffvars, extvars >>

Next ==
    \/ MainClickNoUrl
    \/ MainClickUnavailable
    \/ MainClickCrawl
    \/ MainRerun
    \/ MainDisplayNothing
    \/ MainDisplay

Spec == Init /\ [][Next]_vars

(***************************************************************************)
(* SpecApp: the app.py dashboard.  A click on "Start Crawling" runs the    *)
(* button block (lines 262-308) and then the display section (lines        *)
(* 310-361); any other interaction runs the display section alone.  Each   *)
(* click makes a new WebCrawler; st.session_state.crawler is never read.   *)
(***************************************************************************)
AppContentOptions == {"Page Content", "Spell Check", "Links"}

\* the body of `for option in selected_options` inside the try block;
\* st is [crawler, run, data, caught]
AppOption(st, option, pg, svc) ==
    IF option = "Spell Check"
    THEN LET r == HighlightIncorrectText(st.crawler, pg, svc) IN
         IF r.join.outcome = "ok"
         THEN [st EXCEPT !.crawler = r.crawler, !.run = RunOf(r),
                         !.data = Put(@, option,
                              Artifact(r.crawler.url,
                                  DataFrame(r.join.raw_text, r.join.edited_text)))]
         ELSE [st EXCEPT !.crawler = r.crawler, !.run = RunOf(r),
                         !.caught = r.join.outcome]
    ELSE [st EXCEPT !.data = Put(@, option, ExtractFromSoup(st.crawler))]

RECURSIVE AppOptions(_, _, _, _)
AppOptions(st, options, pg, svc) ==
    IF options = << >> \/ st.caught # "none" THEN st
    ELSE AppOptions(AppOption(st, Head(options), pg, svc), Tail(options), pg, svc)

InitApp ==
    /\ ExtractIdle
    /\ PackIdle
    /\ DiffIdle
    /\ crawler = NewCrawler
    /\ run = NoRun
    /\ page = [base |-> << >>, special |-> << >>]
    /\ reply = ServiceReturns(<< >>)
    /\ session = [crawled_data |-> EmptyDict]
    /\ ui = NoUi
    /\ pc = "idle"

\* lines 263-268: no URL, an invalid URL or no option selected
AppClickRejected ==
    /\ pc = "idle"
    /\ \E msg \in {"Please enter a URL to crawl.", "Please enter a valid URL",
                   "Please select at least one content type to extract."} :
         ui' = [NoUi EXCEPT !.errors = {msg}]
    /\ run' = NoRun
    /\ pc' = "display"
    /\ UNCHANGED << session, crawler, page, reply, pkvars, diffvars, extvars >>

\* lines 270-276: crawl_website catches the failed crawl and reports it
AppClickCrawlFails ==
    /\ pc = "idle"
    /\ \E u \in Urls :
         /\ crawler' = CrawlWithPlaywright(NewCrawler, u, FALSE).crawler
         /\ ui' = [NoUi EXCEPT !.errors = {"Failed to load website"}, !.clicked = u]
    /\ run' = NoRun
    /\ pc' = "display"
    /\ UNCHANGED << session, page, reply, pkvars, diffvars, extvars >>

\* lines 270-308: the crawl succeeds and the selected contents are extracted
AppClickExtract ==
    /\ pc = "idle"
    /\ \E u \in Urls, options \in OptionLists(AppContentOptions) \ {<< >>} :
         LET calls == \E k \in 1..Len(options) : options[k] = "Spell Check" IN
         \E pg \in (IF calls THEN DashPages ELSE {page}),
            svc \in (IF calls THEN DashReplies ELSE {reply}) :
           LET c == CrawlWithPlaywright(NewCrawler, u, TRUE).crawler
               st == AppOptions([crawler |-> c, run |-> NoRun, data |-> EmptyDict,
                                 caught |-> "none"], options, pg, svc)
           IN  /\ crawler' = Cleanup(st.crawler, "none")
               /\ run' = st.run
               /\ session' = IF st.caught = "none"
                             THEN [session EXCEPT !.crawled_data = st.data]
                             ELSE session
               /\ ui' = [NoUi EXCEPT !.data = st.data, !.clicked = u,
                           !.errors = IF st.caught = "none" THEN {}
                                      ELSE {"Error during content extraction"}]
    /\ pc' = "display"
    /\ UNCHANGED << page, reply, pkvars, diffvars, extvars >>

\* an interaction other than the button
AppRerun ==
    /\ pc = "idle"
    /\ ui' = NoUi
    /\ run' = NoRun
    /\ pc' = "display"
    /\ UNCHANGED << session, crawler, page, reply, pkvars, diffvars, extvars >>

\* display_spell_check (lines 80-97): a download button unless the frame
\* is empty
AppSpellCheckCsv(data) ==
    IF "Spell Check" \in DOMAIN data /\ data["Spell Check"].rows # << >>
    THEN SetTo(ToCsv(CellsOf(data["Spell Check"].rows)))
    ELSE NoCsv

\* lines 310-361: the stored results, if any, are displayed in tabs
AppDisplay ==
    /\ pc = "display"
    /\ ui' = [ui EXCEPT !.shown = session.crawled_data,
                        !.csv = AppSpellCheckCsv(session.crawled_data)]
    /\ pc' = "idle"
    /\ UNCHANGED << session, crawler, run, page, reply, pkvars, diffvars, extvars >>

NextApp ==
    \/ AppClickRejected
    \/ AppClickCrawlFails
    \/ AppClickExtract
    \/ AppRerun
    \/ AppDisplay

SpecApp == InitApp /\ [][NextApp]_vars

(***************************************************************************)
(* SpecExtract: the extract_* methods called in any order on one crawled   *)
(* document of up to MaxDoc elements.                                      *)
(***************************************************************************)
DocTags == {"a", "img", "table"}

DocRegions == {"body", "nav", "form"}

Documents ==
    { Soup(m, [k \in 1..Len(es) |-> DocElem(k, es[k][1], es[k][2])]) :
        m \in BOOLEAN, es \in SeqsUpTo(DocTags \X DocRegions, MaxDoc) }

InitExtract ==
    /\ PackIdle
    /\ RunIdle
    /\ DiffIdle
    /\ doc_crawled \in Documents
    /\ doc_soup = doc_crawled
    /\ doc_out = NoExtracts

CallExtractPageContent ==
    /\ doc_soup' = ExtractPageContent(doc_soup)
    /\ UNCHANGED << doc_crawled, doc_out, pkvars, runvars, dashvars, diffvars >>

CallExtractLinks ==
    /\ doc_out' = [doc_out EXCEPT !.links = SetTo(ExtractByTag(doc_soup, "a"))]
    /\ UNCHANGED << doc_crawled, doc_soup, pkvars, runvars, dashvars, diffvars >>

CallExtractImages ==
    /\ doc_out' = [doc_out EXCEPT !.images = SetTo(ExtractByTag(doc_soup, "img"))]
    /\ UNCHANGED << doc_crawled, doc_soup, pkvars, runvars, dashvars, diffvars >>

CallExtractTables ==
    /\ doc_out' = [doc_out EXCEPT !.tables = SetTo(ExtractByTag(doc_soup, "table"))]
    /\ UNCHANGED << doc_crawled, doc_soup, pkvars, runvars, dashvars, diffvars >>

NextExtract ==
    \/ CallExtractPageContent
    \/ CallExtractLinks
    \/ CallExtractImages
    \/ CallExtractTables

SpecExtract == InitExtract /\ [][NextExtract]_vars

(***************************************************************************)
(* SpecDiff: make_both_bold on every pair of strings that are either any   *)
(* string of up to MaxChars characters or up to MaxWords words joined by   *)
(* single spaces.                                                          *)
(***************************************************************************)
Alphabet == {"a", "b", " "}

DiffWords == { << "a" >>, << "b" >>, << "c" >>, << "d" >> }

DiffStrings ==
    SeqsUpTo(Alphabet, MaxChars) \cup { Join(ws) : ws \in SeqsUpTo(DiffWords, MaxWords) }

InitDiff ==
    /\ ExtractIdle
    /\ PackIdle
    /\ RunIdle
    /\ d_wrong \in DiffStrings
    /\ d_correct \in DiffStrings
    /\ d_out = [done |-> FALSE, wrong |-> << >>, correct |-> << >>]

CallMakeBothBold ==
    /\ ~d_out.done
    /\ LET r == MakeBothBold(d_wrong, d_correct) IN
         d_out' = [done |-> TRUE, wrong |-> r[1], correct |-> r[2]]
    /\ UNCHANGED << d_wrong, d_correct, pkvars, runvars, dashvars, extvars >>

NextDiff == CallMakeBothBold

SpecDiff == InitDiff /\ [][NextDiff]_vars

(***************************************************************************)
(* Properties of the dashboards.                                           *)
(***************************************************************************)
\* C9: when the correction-service call of a run fails, the artifacts the
\* run had already extracted are on display once the script has run
\* (app.py).
C9_PartialResultsSurfaced ==
    (pc = "idle" /\ run.outcome = "ServiceError") =>
        \A k \in DOMAIN ui.data :
            k \in DOMAIN ui.shown /\ ui.shown[k] = ui.data[k]

\* C28: the results shown after a 'Start Crawling' click are those of that
\* click's run: when the crawl fails or an extraction raises, the results of
\* an earlier run are not left on display (app.py).
C28_ShownAreOfThisClick ==
    (pc = "idle" /\ ui.clicked # "none") =>
        \A k \in DOMAIN ui.shown : ui.shown[k].of = ui.clicked

\* C10: a failed spell-check step never ends the script run as an uncaught
\* exception; it is reported as an inline message (main.py).
C10_SpellCheckFailureCaught ==
    run.outcome \notin {"none", "ok"} =>
        ui.uncaught = "none" /\ ui.errors # {}

\* C11: a spell-check run whose correction answer is empty ends without
\* error: nothing highlighted, a table of zero rows, and the diff rendering
\* and export that follow raise nothing (main.py).
C11_EmptyAnswerCompletes ==
    (run.outcome = "ok" /\ crawler.correction_text.set
        /\ crawler.correction_text.val = << >>) =>
        /\ run.highlighted = << >>
        /\ run.raw_text = << >>
        /\ ui.uncaught = "none"

\* C12: the export has one data row per CorrectionRecord, in the order of
\* the corrections, holding the record's original text and the service's
\* corrected text in the two columns, and no index column (main.py).
C12_ExportRows ==
    ui.csv.set =>
        /\ ui.csv.val.header = << "Wrong Text", "Correct Text Suggest" >>
        /\ ui.csv.val.rows =
              CellsOf(session.extracted_content.val["Spell Check"].rows)

\* C26: over any sequence of dashboard operations on the crawler a browser
\* it launched is closed before its references are overwritten by a new
\* launch: no browser that is still open loses its reference (main.py).
C26_NoOrphanBrowser == ~crawler.orphaned

\* st.session_state.extracted_content
Cache == session.extracted_content.val

\* C22: the diff rendering always starts from the unmarked texts: the cached
\* table is left as it is by every rendering of the Spell Check view, and
\* the table displayed carries the marks of one rendering of the cached
\* texts, never of two.
C22_RenderFromUnmarked ==
    [][ /\ ("Spell Check" \in DOMAIN Cache /\ "Spell Check" \in DOMAIN Cache') =>
               Cache'["Spell Check"] = Cache["Spell Check"]
        /\ "Spell Check" \in DOMAIN ui'.shown =>
               LET rows == Cache'["Spell Check"].rows IN
               ui'.shown["Spell Check"].rows =
                   [k \in 1..Len(rows) |->
                       MakeBothBold(Chars(rows[k][1]), Chars(rows[k][2]))]
      ]_vars

\* the Spell Check view rendered again from the cached table, without a run
C22_Witness ==
    /\ pc = "idle"
    /\ run.outcome = "none"
    /\ "Spell Check" \in DOMAIN ui.shown
    /\ ui.shown["Spell Check"].rows # << >>

(***************************************************************************)
(* Properties of the extract_* methods (SpecExtract).                      *)
(***************************************************************************)
\* C27: extract_links, extract_images and extract_tables return the same
\* result whether or not extract_page_content was called before them:
\* the result is that of the document as it was parsed.
C27_ExtractionsIndependent ==
    \A kind \in DOMAIN ExtractTags :
        doc_out[kind].set =>
            doc_out[kind].val = ExtractByTag(doc_crawled, ExtractTags[kind])

(***************************************************************************)
(* Properties of make_both_bold (SpecDiff).                                *)
(***************************************************************************)
\* C14: for every string x the diff of the pair (x, x) marks no word and
\* both outputs equal x exactly.
C14_NoOpExact ==
    (d_out.done /\ d_wrong = d_correct) =>
        /\ d_out.wrong = d_wrong
        /\ d_out.correct = d_wrong

\* the two texts have no word in common
NoCommonWord ==
    \A i \in 1..Len(Split(d_wrong)), j \in 1..Len(Split(d_correct)) :
        Split(d_wrong)[i] # Split(d_correct)[j]

AllBold(words) == Join([n \in 1..Len(words) |-> Bold(words[n])])

\* C15: when the original and the corrected text have no word in common,
\* every word of both marked outputs is wrapped in the marker.
C15_FullReplacement ==
    (d_out.done /\ NoCommonWord) =>
        /\ d_out.wrong = AllBold(Split(d_wrong))
        /\ d_out.correct = AllBold(Split(d_correct))

\* a diff of two texts that both have words and share none
C15_Witness ==
    /\ d_out.done
    /\ NoCommonWord
    /\ Len(Split(d_wrong)) > 1
    /\ Len(Split(d_correct)) > 0

\* the word alignment of the two texts
DiffOps == GetOpcodes(Split(d_wrong), Split(d_correct))

DiffTags == { DiffOps[n].tag : n \in 1..Len(DiffOps) }

\* word i (0-based) of the original lies in a run with one of the tags
InWrongRun(ops, tags, i) ==
    \E n \in 1..Len(ops) : ops[n].tag \in tags /\ ops[n].i1 <= i /\ i < ops[n].i2

\* word j (0-based) of the corrected text lies in a run with one of the tags
InCorrectRun(ops, tags, j) ==
    \E n \in 1..Len(ops) : ops[n].tag \in tags /\ ops[n].j1 <= j /\ j < ops[n].j2

\* C23: a word of the original is marked exactly when it lies in a replace
\* or delete run, a word of the corrected text exactly when it lies in a
\* replace or insert run, a word of an equal run is output unmarked, and
\* the number and order of the words of each side are unchanged.
C23_MarkedByRun ==
    d_out.done =>
        LET ww == Split(d_wrong)
            cw == Split(d_correct)
            ow == Split(d_out.wrong)
            oc == Split(d_out.correct)
            ops == DiffOps
        IN  /\ Len(ow) = Len(ww)
            /\ Len(oc) = Len(cw)
            /\ \A n \in 1..Len(ww) :
                  /\ ow[n] = IF InWrongRun(ops, {"replace", "delete"}, n - 1)
                             THEN Bold(ww[n]) ELSE ww[n]
                  /\ InWrongRun(ops, {"equal"}, n - 1) => ow[n] = ww[n]
            /\ \A n \in 1..Len(cw) :
                  /\ oc[n] = IF InCorrectRun(ops, {"replace", "insert"}, n - 1)
                             THEN Bold(cw[n]) ELSE cw[n]
                  /\ InCorrectRun(ops, {"equal"}, n - 1) => oc[n] = cw[n]

\* a diff with a deleted word, an equal word and an inserted word
C23_Witness ==
    /\ d_out.done
    /\ {"delete", "equal", "insert"} \subseteq DiffTags

\* a word of an output that does not carry the marker
Unmarked(w) == Head(w) # "*"

RECURSIVE IsSubsequence(_, _)
IsSubsequence(u, v) ==
    IF u = << >> THEN TRUE
    ELSE IF v = << >> THEN FALSE
    ELSE IF Head(u) = Head(v) THEN IsSubsequence(Tail(u), Tail(v))
    ELSE IsSubsequence(u, Tail(v))

\* C29: the unmarked words of the marked original and the unmarked words of
\* the marked corrected text are the same word sequence, a common
\* subsequence of both texts.
C29_UnmarkedAgree ==
    d_out.done =>
        LET uw == SelectSeq(Split(d_out.wrong), Unmarked)
            uc == SelectSeq(Split(d_out.correct), Unmarked)
        IN  /\ uw = uc
            /\ IsSubsequence(uw, Split(d_wrong))
            /\ IsSubsequence(uw, Split(d_correct))

\* a diff that left a word unmarked and marked a word on each side
C29_Witness ==
    /\ d_out.done
    /\ SelectSeq(Split(d_out.wrong), Unmarked) # << >>
    /\ \E n \in 1..Len(Split(d_out.wrong)) : ~Unmarked(Split(d_out.wrong)[n])
    /\ \E n \in 1..Len(Split(d_out.correct)) : ~Unmarked(Split(d_out.correct)[n])

(***************************************************************************)
(* Properties of highlight_incorrect_text (SpecRun).                       *)
(***************************************************************************)
\* the service was called and answered in the last run
ServiceAnswered ==
    run.sent # << >> /\ run.outcome \in {"ok", "IndexError", "HighlightError"}

Collected == crawler.locators_element.val

Corrections == crawler.correction_text.val

\* the records the join has to build from the entries accepted by Valid(_):
\* one per accepted entry, in order, from the collected element of that idx
ElemOfIdx(i) == CHOOSE e \in { Collected[k] : k \in 1..Len(Collected) } : e.idx = i

RecordsMatch(accepted) ==
    /\ Len(run.raw_text) = Len(accepted)
    /\ Len(run.edited_text) = Len(accepted)
    /\ Len(run.highlighted) = Len(accepted)
    /\ \A k \in 1..Len(accepted) :
          /\ run.raw_text[k] = ElemOfIdx(accepted[k].idx).text
          /\ run.highlighted[k] = ElemOfIdx(accepted[k].idx).locator
          /\ run.edited_text[k] = accepted[k].content

\* C5: a run that completes has sent every batch of the packer to
\* spelling_check exactly once, in batch order.
C5_EveryBatchSent ==
    run.outcome = "ok" => run.sent = crawler.text_batches.val

\* C6: every record built by the join has the text and the locator of the
\* collected element whose idx is the idx of its correction.
C6_IndexRoundTrip ==
    crawler.correction_text.set =>
        \A k \in 1..Len(run.raw_text) :
            \E n \in 1..Len(Collected) :
                /\ Collected[n].idx = Corrections[k].idx
                /\ Collected[n].text = run.raw_text[k]
                /\ Collected[n].locator = run.highlighted[k]

\* C7: an answer entry whose idx is not the idx of an item of the batch sent
\* is dropped, and the other entries of the answer are processed.
C7_ForeignEntryDropped ==
    ServiceAnswered =>
        LET InBatch(res) == \E j \in 1..Len(run.sent[1]) : run.sent[1][j].idx = res.idx
        IN  /\ run.outcome = "ok"
            /\ RecordsMatch(SelectSeq(Corrections, InBatch))

\* C8: a correction whose idx no collected element has drops that record
\* only: the call raises nothing and every other correction has its record.
C8_AbsentIdxDropsOneRecord ==
    ServiceAnswered =>
        LET Known(res) == \E n \in 1..Len(Collected) : Collected[n].idx = res.idx
        IN  /\ run.outcome = "ok"
            /\ RecordsMatch(SelectSeq(Corrections, Known))

\* C13: highlighting is best-effort: when the highlight of one record's
\* element fails the run is not aborted, and the records of that element and
\* of all later corrections are still built.
C13_HighlightBestEffort ==
    (ServiceAnswered
        /\ \A k \in 1..Len(Corrections) :
               Corrections[k].idx \in 0..(Len(Collected) - 1)) =>
        /\ run.outcome = "ok"
        /\ Len(run.raw_text) = Len(Corrections)
        /\ Len(run.edited_text) = Len(Corrections)
        /\ \A k \in 1..Len(Corrections) :
               /\ run.raw_text[k] = Collected[Corrections[k].idx + 1].text
               /\ run.edited_text[k] = Corrections[k].content

\* C21: once collection has finished, packing, the correction call, the
\* highlighting and the building of the table leave the collected list as
\* the collector returned it: same length, order, idx and text.
C21_CollectedUnchanged ==
    crawler.locators_element.set =>
        /\ Len(Collected) = Len(GetCommonTextElements(page))
        /\ \A k \in 1..Len(Collected) :
              /\ Collected[k].idx = GetCommonTextElements(page)[k].idx
              /\ Collected[k].text = GetCommonTextElements(page)[k].text

\* a completed run that built a record from a list of two or more elements
C21_Witness ==
    /\ run.outcome = "ok"
    /\ Len(run.raw_text) >= 1
    /\ Len(Collected) >= 2

\* C25: when the packer returns zero batches the run completes without
\* error and returns an empty table, and the service is not called.
C25_NoBatchCompletes ==
    (crawler.text_batches.set /\ crawler.text_batches.val = << >>) =>
        /\ run.outcome = "ok"
        /\ run.raw_text = << >>
        /\ run.edited_text = << >>
        /\ run.sent = << >>

\* C30: cleanup never raises, and once it has returned every resource the
\* crawler holds is released: the page and the browser are closed and
\* playwright is stopped, also when a close fails.
C30_CleanupReleasesAll ==
    run.cleanup = "returned" =>
        /\ crawler.page # "open"
        /\ crawler.browser # "open"
        /\ crawler.playwright # "started"

(***************************************************************************)
(* Properties of get_common_text_elements (SpecRun).                       *)
(***************************************************************************)
\* C24: the element at list position k has idx = k, so the positional
\* lookup _locators_element[idx] of the join returns the element whose idx
\* field is idx, for every idx in 0..n-1.
C24_PositionIsIdx ==
    crawler.locators_element.set =>
        \A i \in 0..(Len(Collected) - 1) :
            /\ PyInRange(Collected, i)
            /\ PyIndex(Collected, i).idx = i

\* the join looked up an element past a node of blank text
C24_Witness ==
    /\ run.outcome = "ok"
    /\ Len(page.base) >= 2
    /\ page.base[1].text = ""
    /\ \E k \in 1..Len(run.raw_text) : Corrections[k].idx >= 0

\* selector-list order, then document order within a selector
LocatorBefore(l1, l2) ==
    \/ l1.sel = "base" /\ l2.sel = "special"
    \/ l1.sel = l2.sel /\ l1.nth < l2.nth

\* C18: the indices of the collected elements come from one counter that
\* starts at 0 and is shared by the base and the special selectors: they are
\* 0..n-1, unique, in selector-list order then document order.
C18_SharedCounter ==
    crawler.locators_element.set =>
        \A k \in 1..Len(Collected) :
            /\ Collected[k].idx = k - 1
            /\ \A j \in 1..(k - 1) :
                  /\ Collected[j].idx # Collected[k].idx
                  /\ LocatorBefore(Collected[j].locator, Collected[k].locator)

\* a base element and a special element were both collected
C18_Witness ==
    /\ crawler.locators_element.set
    /\ \E j, k \in 1..Len(Collected) :
          Collected[j].locator.sel = "base" /\ Collected[k].locator.sel = "special"

\* C19: every collected element is displayed (has a rendered layout); a
\* matched element that is not displayed is never collected.
C19_OnlyDisplayedCollected ==
    crawler.locators_element.set =>
        \A k \in 1..Len(Collected) : NodeAt(page, Collected[k].locator).displayed

\* the locators of the page in collection order whose text can be read and
\* is not blank
Readable ==
    LET all == [i \in 1..Len(page.base) |-> Locator("base", i - 1)]
                 \o [i \in 1..Len(page.special) |-> Locator("special", i - 1)]
        HasText(l) == ~NodeAt(page, l).detached /\ NodeAt(page, l).text # ""
    IN  SelectSeq(all, HasText)

\* C20: an element whose text extraction raises is skipped without taking an
\* index, and every other element with non-blank text is returned.
C20_DetachedSkipped ==
    crawler.locators_element.set =>
        /\ Len(Collected) = Len(Readable)
        /\ \A k \in 1..Len(Readable) :
              /\ Collected[k].locator = Readable[k]
              /\ Collected[k].text = NodeAt(page, Readable[k]).text
              /\ Collected[k].idx = k - 1

\* a detached node stood before a node that was collected
C20_Witness ==
    /\ crawler.locators_element.set
    /\ \E i \in 1..Len(page.base) :
          /\ page.base[i].detached
          /\ \E k \in 1..Len(Collected) :
                \/ Collected[k].locator.sel = "special"
                \/ Collected[k].locator.nth + 1 > i

(***************************************************************************)
(* Properties of find_dumb_text_batches (SpecPack).                        *)
(***************************************************************************)
RECURSIVE Flatten(_)
Flatten(bs) == IF bs = << >> THEN << >> ELSE Head(bs) \o Flatten(Tail(bs))

\* number of positions of sequence s holding value v
Occurrences(s, v) == Cardinality({ k \in 1..Len(s) : s[k] = v })

BatchedIdx == LET f == Flatten(pk_acc.batches) IN [k \in 1..Len(f) |-> f[k].idx]

AloneTooBig(elem) == NumTokens(<< Item(elem) >>) > pk_max

\* C1: every batch returned by find_dumb_text_batches has a serialized
\* token count of at most MAX_TOKENS.
C1_BudgetInvariant ==
    pk_pc = "returned" =>
        \A b \in 1..Len(pk_acc.batches) : NumTokens(pk_acc.batches[b]) <= pk_max

\* C2: an element whose single-item serialization exceeds MAX_TOKENS is in
\* no returned batch, wherever it stands in the input.
C2_OversizedNeverBatched ==
    pk_pc = "returned" =>
        \A k \in 1..Len(pk_elements) :
            AloneTooBig(pk_elements[k]) =>
                Occurrences(BatchedIdx, pk_elements[k].idx) = 0

\* C3: every input element is in exactly one returned batch or is reported
\* as dropped; none is in two batches, none is lost without a report.
C3_Completeness ==
    pk_pc = "returned" =>
        \A k \in 1..Len(pk_elements) :
            /\ Occurrences(BatchedIdx, pk_elements[k].idx)
                 + Occurrences(pk_acc.dropped, pk_elements[k].idx) = 1
            /\ Occurrences(BatchedIdx, pk_elements[k].idx) <= 1

\* a returned call that closed a batch in the loop, started another one and
\* reported a drop
C3_Witness ==
    /\ pk_pc = "returned"
    /\ Len(pk_acc.batches) >= 2
    /\ pk_acc.dropped # << >>

\* C4: the items of the returned batches, concatenated in batch order, are
\* the input elements in input order without the dropped ones.
C4_OrderPreserved ==
    pk_pc = "returned" =>
        LET items == [k \in 1..Len(pk_elements) |-> Item(pk_elements[k])]
            kept(it) == Occurrences(pk_acc.dropped, it.idx) = 0
        IN Flatten(pk_acc.batches) = SelectSeq(items, kept)

\* a returned call with two batches, three batched items and nothing dropped
\* after the first element
C4_Witness ==
    /\ pk_pc = "returned"
    /\ Len(pk_acc.batches) = 2
    /\ Len(pk_elements) = 3
    /\ pk_acc.dropped = << 0 >>

\* C16: no returned batch is empty; the code after the loop appends a final
\* batch exactly when the accumulator is non-empty; an empty input returns
\* zero batches.
C16_FinalBatch ==
    [][ /\ \A b \in 1..Len(pk_acc'.batches) : pk_acc'.batches[b] # << >>
        /\ (pk_pc = "loop" /\ pk_pc' = "returned" /\ pk_elements # << >>) =>
               pk_acc'.batches =
                   IF pk_acc.current_batch # << >>
                   THEN Append(pk_acc.batches, pk_acc.current_batch)
                   ELSE pk_acc.batches
        /\ (pk_pc' = "returned" /\ pk_elements = << >>) => pk_acc'.batches = << >>
      ]_vars

\* a call on a non-empty input that returned with an empty accumulator
C16_Witness ==
    /\ pk_pc = "returned"
    /\ pk_elements # << >>
    /\ pk_acc.current_batch = << >>
    /\ pk_acc.batches = << >>

AllItems == [k \in 1..Len(pk_elements) |-> Item(pk_elements[k])]

\* C17: an iteration closes the current batch exactly when the accumulator
\* is non-empty and appending the element would exceed MAX_TOKENS; so items
\* that all fit together are returned as one batch, and two items of which
\* only one fits at a time as two one-item batches in input order.
C17_GreedyBoundaries ==
    [][ /\ (pk_pc = "loop" /\ pk_i' = pk_i + 1) =>
               LET elem == pk_elements[pk_i + 1]
                   temp_batch == Append(pk_acc.current_batch, Item(elem))
                   closes == pk_acc'.batches # pk_acc.batches
               IN  /\ closes <=> (pk_acc.current_batch # << >>
                                     /\ NumTokens(temp_batch) > pk_max)
                   /\ closes => pk_acc'.batches =
                                    Append(pk_acc.batches, pk_acc.current_batch)
        /\ (pk_pc' = "returned" /\ pk_elements # << >>
               /\ NumTokens(AllItems) <= pk_max) =>
               pk_acc'.batches = << AllItems >>
        /\ (pk_pc' = "returned" /\ Len(pk_elements) = 2
               /\ NumTokens(<< AllItems[1] >>) <= pk_max
               /\ NumTokens(<< AllItems[2] >>) <= pk_max
               /\ NumTokens(AllItems) > pk_max) =>
               pk_acc'.batches = << << AllItems[1] >>, << AllItems[2] >> >>
      ]_vars

\* two items of which only one fits at a time, returned as two batches
C17_Witness ==
    /\ pk_pc = "returned"
    /\ Len(pk_elements) = 2
    /\ NumTokens(AllItems) > pk_max
    /\ pk_acc.batches = << << AllItems[1] >>, << AllItems[2] >> >>

====
